---- MODULE Spec2Model ----
(***************************************************************************)
(* posts-api: the post / tag / blob stores and the request handlers of     *)
(* postsController.ts and tagsController, as a state machine.  Every       *)
(* handler is cut at its awaits: one action per store or blob-store call   *)
(* that returns, so that concurrent requests interleave exactly where the  *)
(* Node.js event loop lets them.                                           *)
(***************************************************************************)
EXTENDS Integers, Sequences, FiniteSets, TLC

VARIABLES posts, tags, blobs, req, started

vars == <<posts, tags, blobs, req, started>>

(***************************************************************************)
(* Bounds of the model.                                                    *)
(***************************************************************************)
\* Requests that may be in flight at the same time.
NumSlots == 2
\* Requests started in one behaviour; the n-th request gets the store-assigned
\* identifiers n (post id, blob name).
MaxOps == 3

Slots == 1..NumSlots
PostIds == 1..MaxOps

(***************************************************************************)
(* Strings are sequences of characters over a small alphabet.              *)
(***************************************************************************)
UpperSeq ==
  <<"A", "B", "C", "D", "E", "F", "G", "H", "I", "J", "K", "L", "M",
    "N", "O", "P", "Q", "R", "S", "T", "U", "V", "W", "X", "Y", "Z">>
LowerSeq ==
  <<"a", "b", "c", "d", "e", "f", "g", "h", "i", "j", "k", "l", "m",
    "n", "o", "p", "q", "r", "s", "t", "u", "v", "w", "x", "y", "z">>
DigitSeq == <<"0", "1", "2", "3", "4", "5", "6", "7", "8", "9">>

LowerLetters == {LowerSeq[i] : i \in 1..Len(LowerSeq)}
UpperLetters == {UpperSeq[i] : i \in 1..Len(UpperSeq)}
Digits == {DigitSeq[i] : i \in 1..Len(DigitSeq)}
Whitespace == {" "}

\* String.prototype.toLowerCase, one character.
LowerChar(c) ==
  IF c \in UpperLetters
  THEN LowerSeq[CHOOSE i \in 1..Len(UpperSeq) : UpperSeq[i] = c]
  ELSE c

\* s.toLowerCase()
ToLowerCase(s) == [i \in 1..Len(s) |-> LowerChar(s[i])]

\* The mutant that matches letters of either case and forgets toLowerCase.
SlugifyKeepsCase(name) ==
  [i \in 1..Len(name) |->
     IF LowerChar(name[i]) \in LowerLetters \cup Digits THEN name[i] ELSE "-"]

\* name.toLowerCase().replace(/[^a-z0-9]/g, '-')
Slugify(name) ==
  LET l == ToLowerCase(name)
  IN [i \in 1..Len(l) |->
        IF l[i] \in LowerLetters \cup Digits THEN l[i] ELSE "-"]

RECURSIVE TrimStart(_)
TrimStart(s) ==
  IF s # <<>> /\ Head(s) \in Whitespace THEN TrimStart(Tail(s)) ELSE s

RECURSIVE TrimEnd(_)
TrimEnd(s) ==
  IF s # <<>> /\ s[Len(s)] \in Whitespace
  THEN TrimEnd(SubSeq(s, 1, Len(s) - 1))
  ELSE s

\* String.prototype.trim (also mongoose's `trim: true` setter).
Trim(s) == TrimEnd(TrimStart(s))

\* s.split(','): the pieces between commas, empty pieces kept.
RECURSIVE SplitFrom(_, _, _)
SplitFrom(s, i, piece) ==
  IF i > Len(s) THEN <<piece>>
  ELSE IF s[i] = "," THEN <<piece>> \o SplitFrom(s, i + 1, <<>>)
  ELSE SplitFrom(s, i + 1, Append(piece, s[i]))

SplitComma(s) == SplitFrom(s, 1, <<>>)

(***************************************************************************)
(* JavaScript numbers as the pagination code meets them: an integer, NaN   *)
(* or Infinity.                                                            *)
(***************************************************************************)
Num(n) == [kind |-> "int", v |-> n]
NaN == [kind |-> "NaN", v |-> 0]
Infinity == [kind |-> "Infinity", v |-> 0]

IsInt(x) == x.kind = "int"

\* The value of a decimal digit.
DigitValue(c) == (CHOOSE i \in 1..Len(DigitSeq) : DigitSeq[i] = c) - 1

\* The longest prefix of s made of decimal digits.
RECURSIVE DigitPrefix(_)
DigitPrefix(s) ==
  IF s # <<>> /\ Head(s) \in Digits
  THEN <<Head(s)>> \o DigitPrefix(Tail(s))
  ELSE <<>>

\* The number a sequence of decimal digits denotes.
RECURSIVE DigitsValue(_)
DigitsValue(d) ==
  IF d = <<>> THEN 0
  ELSE 10 * DigitsValue(SubSeq(d, 1, Len(d) - 1)) + DigitValue(d[Len(d)])

\* parseInt(s, 10), and parseInt(s) for s without a "0x" prefix: leading
\* white space skipped, an optional sign, then the digits up to the first
\* character that is none; NaN when there is no digit.
ParseInt(s) ==
  LET t == TrimStart(s)
      signed == t # <<>> /\ Head(t) \in {"-", "+"}
      body == IF signed THEN Tail(t) ELSE t
      d == DigitPrefix(body)
  IN IF d = <<>> THEN NaN
     ELSE IF signed /\ Head(t) = "-" THEN Num(0 - DigitsValue(d))
     ELSE Num(DigitsValue(d))

\* x || d for a number x: NaN and 0 are falsy.
OrDefault(x, d) == IF IsInt(x) /\ x.v # 0 THEN x ELSE Num(d)

\* (page - 1) * limit
SkipOf(page, limit) ==
  IF IsInt(page) /\ IsInt(limit) THEN Num((page.v - 1) * limit.v) ELSE NaN

\* Math.ceil(total / limit) for an integer total >= 0.
CeilDiv(total, limit) ==
  IF ~IsInt(limit) THEN NaN
  ELSE IF limit.v > 0 THEN Num((total + limit.v - 1) \div limit.v)
  ELSE IF limit.v < 0 THEN Num(0 - (total \div (0 - limit.v)))
  ELSE IF total = 0 THEN NaN
  ELSE Infinity

\* A parameter of the query string: absent (undefined) or a string.
NoParam == [present |-> FALSE, str |-> <<>>]
Param(s) == [present |-> TRUE, str |-> s]

\* The string a parameter is read as: String(undefined) is "undefined".
ParamString(p) ==
  IF p.present THEN p.str ELSE <<"u", "n", "d", "e", "f", "i", "n", "e", "d">>

\* getPosts: parseInt(req.query.page as string) || 1
ListingNumber(p, d) == OrDefault(ParseInt(ParamString(p)), d)

\* searchPosts: const { page = '1' } = req.query; parseInt(page as string, 10)
SearchNumber(p, d) == ParseInt(IF p.present THEN p.str ELSE d)

(***************************************************************************)
(* Request inputs.                                                         *)
(***************************************************************************)
\* A text field of a request body, abstracted to its identity and its length;
\* len = 0 is the absent (undefined) or empty field, falsy in JavaScript.
Text(s, n) == [s |-> s, len |-> n]
NoText == Text("", 0)
Truthy(t) == t.len > 0

MaxTitleLen == 200
MaxDescriptionLen == 5000
MaxTagNameLen == 50
\* 5 * 1024 * 1024
MaxImageBytes == 5242880

TitleInputs == {NoText, Text("T1", 200), Text("TL", 201)}
DescriptionInputs == {NoText, Text("D1", 5000)}

\* req.files.image: its declared media type "type/subtype" and its size.
File(type, subtype, size) ==
  [present |-> TRUE, mimetype |-> <<type, subtype>>, size |-> size]
NoFile == [present |-> FALSE, mimetype |-> <<"", "">>, size |-> 0]

ImageInputs ==
  {NoFile, File("image", "png", 5242880), File("image", "png", 5242881),
   File("text", "plain", 10)}

\* req.body.tags: absent, one string, or an array of strings.
NoTags == [kind |-> "absent", str |-> <<>>, arr |-> <<>>]
TagString(s) == [kind |-> "string", str |-> s, arr |-> <<>>]
TagArray(a) == [kind |-> "array", str |-> <<>>, arr |-> a]

TagsInputs ==
  {NoTags, TagString(<<>>), TagString(<<"a">>), TagString(<<"A", ",", " ", "b">>)}

TagNameInputs == {<<>>, <<"a">>, <<"A">>, <<" ", "a">>}

\* `if (tags)`: undefined and "" are falsy, every array is truthy.
TagsTruthy(t) == t.kind = "array" \/ (t.kind = "string" /\ t.str # <<>>)

\* A list without the later occurrences of its elements.
RECURSIVE KeepFirst(_)
KeepFirst(list) ==
  IF list = <<>> THEN <<>>
  ELSE LET front == KeepFirst(SubSeq(list, 1, Len(list) - 1))
           last == list[Len(list)]
       IN IF \E i \in 1..Len(front) : front[i] = last THEN front
          ELSE Append(front, last)

\* The mutant that resolves every distinct name once.
ParseTagsDeduplicated(t) ==
  IF ~TagsTruthy(t) THEN <<>>
  ELSE IF t.kind = "array" THEN KeepFirst(t.arr)
  ELSE LET pieces == SplitComma(t.str)
       IN KeepFirst([i \in 1..Len(pieces) |-> Trim(pieces[i])])

\* The tag names a request resolves, in order.
ParseTags(t) ==
  IF ~TagsTruthy(t) THEN <<>>
  ELSE IF t.kind = "array" THEN t.arr
  ELSE LET pieces == SplitComma(t.str)
       IN [i \in 1..Len(pieces) |-> Trim(pieces[i])]

(***************************************************************************)
(* The blob store (Cloudinary).                                            *)
(***************************************************************************)
Folder == "posts-api"
AllowedFormats == {"jpg", "jpeg", "png", "gif", "webp"}

\* The public id Cloudinary gives the n-th upload, in the upload's folder.
PublicId(n) == <<Folder, n>>

\* result.secure_url: the URL's path segments; the last one is "<name>.<format>".
SecureUrl(publicId, format) ==
  <<"res.cloudinary.com", "image", "upload", publicId[1], <<publicId[2], format>>>>

\* deleteFromCloud's public id of a URL: the last segment up to its first '.',
\* prefixed with the folder.
PublicIdOfUrl(imageUrl) == <<Folder, imageUrl[Len(imageUrl)][1]>>

\* Whether cloudinary.uploader.upload accepts the file.
UploadAccepts(file) ==
  file.present /\ file.mimetype[1] = "image" /\ file.mimetype[2] \in AllowedFormats

(***************************************************************************)
(* The tag store.                                                          *)
(***************************************************************************)
\* Tag.findOne({ slug }): <<>> or <<tag>>.
TagFindOne(slug) ==
  IF \E t \in tags : t.slug = slug
  THEN <<CHOOSE t \in tags : t.slug = slug>>
  ELSE <<>>

\* The document Tag.create({ name, slug }) builds: the schema's setters applied.
TagDoc(name, slug) ==
  [id |-> Cardinality(tags) + 1, name |-> Trim(name), slug |-> ToLowerCase(slug)]

\* The schema's validators: both paths required, name at most 50 characters.
TagValid(doc) ==
  /\ doc.name # <<>>
  /\ Len(doc.name) <= MaxTagNameLen
  /\ doc.slug # <<>>

\* The mutant of the store without unique indexes.
TagNoUniqueIndex(doc) == TRUE

\* The unique indexes on name and on slug.
TagUnique(doc) ==
  \A t \in tags : t.name # doc.name /\ t.slug # doc.slug

\* How Tag.create ends: "ok", "invalid" (ValidationError) or "duplicate" (E11000).
TagCreateOutcome(doc) ==
  IF ~TagValid(doc) THEN "invalid"
  ELSE IF ~TagUnique(doc) THEN "duplicate"
  ELSE "ok"

(***************************************************************************)
(* The post store.                                                         *)
(***************************************************************************)
PostDoc(title, description, imageUrl, tagIds) ==
  [title |-> title, description |-> description, imageUrl |-> imageUrl,
   tags |-> tagIds]

\* PostSchema's validators.
PostValid(doc) ==
  /\ Truthy(doc.title) /\ doc.title.len <= MaxTitleLen
  /\ Truthy(doc.description) /\ doc.description.len <= MaxDescriptionLen
  /\ doc.imageUrl # <<>>

\* Post.findById(id): <<>> or <<post>>.
PostFindById(id) == IF id \in DOMAIN posts THEN <<posts[id]>> ELSE <<>>

(***************************************************************************)
(* Queries on the post store.                                              *)
(***************************************************************************)
\* The filter object of a find: every post, the posts with one of the tags
\* `ids` ({ tags: { $in: ids } }), or the posts whose title or description
\* matches q ({ $or: [{ title: { $regex: q, $options: 'i' } }, ...] }).
AllPosts == [kind |-> "all", ids |-> {}, q |-> <<>>]
\* The mutant that sets no filter when no tag was found.
TagsFilterEmptyMeansAll(ids) ==
  IF ids = {} THEN AllPosts ELSE [kind |-> "tags", ids |-> ids, q |-> <<>>]

TagsFilter(ids) == [kind |-> "tags", ids |-> ids, q |-> <<>>]
SearchFilter(q) == [kind |-> "search", ids |-> {}, q |-> q]

\* A pattern the regular-expression engine rejects: a group left open.
RegexUnclosed(q) ==
  \E i \in 1..Len(q) : q[i] = "(" /\ \A j \in (i + 1)..Len(q) : q[j] # ")"

\* { $regex: q, $options: 'i' } on text, for patterns of literal characters
\* and '.': the pattern matches somewhere in the text, '.' standing for any
\* character, letters compared without case.
RegexTest(q, text) ==
  \E off \in 0..(Len(text) - Len(q)) :
    \A i \in 1..Len(q) :
      q[i] = "." \/ LowerChar(q[i]) = LowerChar(text[off + i])

FilterMatches(f, doc) ==
  CASE f.kind = "all" -> TRUE
    [] f.kind = "tags" -> \E i \in 1..Len(doc.tags) : doc.tags[i] \in f.ids
    [] f.kind = "search" ->
         RegexTest(f.q, doc.title.s) \/ RegexTest(f.q, doc.description.s)

\* The ids of the posts a filter selects.
Matching(f) == {p \in DOMAIN posts : FilterMatches(f, posts[p])}

\* .sort({ createdAt: -1 }): the newest first; ids grow with creation.
RECURSIVE SortDesc(_)
SortDesc(S) ==
  IF S = {} THEN <<>>
  ELSE LET m == CHOOSE x \in S : \A y \in S : y <= x
       IN <<m>> \o SortDesc(S \ {m})

\* .skip(skip).limit(limit) of a result list, for skip >= 0 and limit >= 0;
\* limit 0 is no limit.
PageOf(list, skip, limit) ==
  LET last == IF limit = 0 \/ skip + limit > Len(list) THEN Len(list)
              ELSE skip + limit
  IN SubSeq(list, skip + 1, last)

\* How the store takes a find with these skip and limit: "ok", "throw", or
\* "either" where the outcome depends on the driver (NaN, a negative limit).
FindOutcome(skip, limit) ==
  IF IsInt(skip) /\ skip.v < 0 THEN "throw"
  ELSE IF ~IsInt(skip) \/ ~IsInt(limit) \/ limit.v < 0 THEN "either"
  ELSE "ok"

\* What a lenient driver makes of a number: NaN dropped, a negative limit
\* taken as its absolute value.
Lenient(x) == IF ~IsInt(x) THEN 0 ELSE IF x.v < 0 THEN 0 - x.v ELSE x.v

\* req.query
NoQuery == [page |-> NoParam, limit |-> NoParam, q |-> NoParam, tags |-> NoParam]

\* `if (x)` for a query parameter: undefined and "" are falsy.
ParamTruthy(p) == p.present /\ p.str # <<>>

(***************************************************************************)
(* Requests.                                                               *)
(***************************************************************************)
Idle ==
  [n |-> 0, op |-> "none", pc |-> "idle", title |-> NoText,
   description |-> NoText, image |-> NoFile, tags |-> NoTags, id |-> 0,
   post |-> <<>>, imageUrl |-> <<>>, tagArray |-> <<>>, tagIds |-> <<>>,
   query |-> NoQuery, page |-> Num(0), limit |-> Num(0), skip |-> Num(0),
   filter |-> AllPosts, data |-> <<>>, total |-> 0, pages |-> Num(0),
   status |-> 0, log |-> <<>>]

\* No handler runs in slot r: a request may arrive there.
Free(r) == req[r].pc = "idle"
\* A handler in slot r waits for a store or for the blob store.
InFlight(r) == req[r].pc \notin {"idle", "done"}

\* res.status(code).json(...); return
Respond(rq, code) == [rq EXCEPT !.pc = "done", !.status = code]

\* The request calls a store or the blob store: `call` joins its log.
Logged(rq, call) == [rq EXCEPT !.log = Append(@, call)]

\* catch (error): res.status(500)
Throw(rq, call) == Respond(Logged(rq, call), 500)

\* Where the handler waits once its tag names are known: the next name's
\* lookup, or the post-store write when every name is resolved.
TagLoopPc(rq) ==
  IF Len(rq.tagIds) < Len(rq.tagArray) THEN "findTag" ELSE "persist"

\* `Process tags`: the names parsed from the body, then the loop over them.
ProcessTags(rq) ==
  LET rq1 == [rq EXCEPT !.tagArray = ParseTags(rq.tags)]
  IN [rq1 EXCEPT !.pc = TagLoopPc(rq1)]

Init ==
  /\ posts = <<>>
  /\ tags = {}
  /\ blobs = {}
  /\ req = [r \in Slots |-> Idle]
  /\ started = 0

(***************************************************************************)
(* createPost                                                              *)
(***************************************************************************)
\* The mutant of the checks that forgets the size limit.
CreateValidateNoSizeLimit(rq) ==
  IF ~Truthy(rq.title) \/ ~Truthy(rq.description) THEN Respond(rq, 400)
  ELSE IF ~rq.image.present THEN Respond(rq, 400)
  ELSE IF rq.image.mimetype[1] # "image" THEN Respond(rq, 400)
  ELSE [rq EXCEPT !.pc = "upload"]

\* The checks before the upload: the request as it is left by them.
CreateValidate(rq) ==
  IF ~Truthy(rq.title) \/ ~Truthy(rq.description) THEN Respond(rq, 400)
  ELSE IF ~rq.image.present THEN Respond(rq, 400)
  ELSE IF rq.image.mimetype[1] # "image" THEN Respond(rq, 400)
  ELSE IF rq.image.size > MaxImageBytes THEN Respond(rq, 400)
  ELSE [rq EXCEPT !.pc = "upload"]

\* POST /api/posts arrives: the handler runs to its first await.
CreatePostStart(r, title, description, image, tagsIn) ==
  /\ Free(r)
  /\ started < MaxOps
  /\ started' = started + 1
  /\ req' = [req EXCEPT ![r] =
       CreateValidate([Idle EXCEPT !.n = started + 1, !.op = "createPost",
                         !.title = title, !.description = description,
                         !.image = image, !.tags = tagsIn])]
  /\ UNCHANGED <<posts, tags, blobs>>

(***************************************************************************)
(* updatePost                                                              *)
(***************************************************************************)
\* The mutant that deletes the previous image before uploading the new one.
UpdateValidateDeleteFirst(rq) ==
  IF rq.image.present
  THEN IF rq.image.mimetype[1] # "image" THEN Respond(rq, 400)
       ELSE IF rq.image.size > MaxImageBytes THEN Respond(rq, 400)
       ELSE [rq EXCEPT !.pc = "destroy"]
  ELSE ProcessTags(rq)

\* From the post found to the first blob-store or tag-store call.
UpdateValidate(rq) ==
  IF rq.image.present
  THEN IF rq.image.mimetype[1] # "image" THEN Respond(rq, 400)
       ELSE IF rq.image.size > MaxImageBytes THEN Respond(rq, 400)
       ELSE [rq EXCEPT !.pc = "upload"]
  ELSE ProcessTags(rq)

\* PUT /api/posts/:id arrives and Post.findById returns.
UpdatePostStart(r, id, title, description, image, tagsIn) ==
  /\ Free(r)
  /\ started < MaxOps
  /\ started' = started + 1
  /\ LET found == PostFindById(id)
         rq == [Idle EXCEPT !.n = started + 1, !.op = "updatePost", !.id = id,
                  !.title = title, !.description = description,
                  !.image = image, !.tags = tagsIn, !.post = found]
     IN req' = [req EXCEPT ![r] =
          IF found = <<>> THEN Respond(Logged(rq, "findById.null"), 404)
          ELSE UpdateValidate(
                 [Logged(rq, "findById.ok") EXCEPT
                    !.imageUrl = found[1].imageUrl])]
  /\ UNCHANGED <<posts, tags, blobs>>

(***************************************************************************)
(* deletePost                                                              *)
(***************************************************************************)
\* The mutant that answers a missing post as deleted.
DeleteNotFoundAsSuccess(rq) == Respond(Logged(rq, "findById.null"), 200)

\* deletePost when Post.findById found nothing.
DeleteNotFound(rq) == Respond(Logged(rq, "findById.null"), 404)

\* DELETE /api/posts/:id arrives and Post.findById returns.
DeletePostStart(r, id) ==
  /\ Free(r)
  /\ started < MaxOps
  /\ started' = started + 1
  /\ LET found == PostFindById(id)
         rq == [Idle EXCEPT !.n = started + 1, !.op = "deletePost", !.id = id,
                  !.post = found]
     IN req' = [req EXCEPT ![r] =
          IF found = <<>> THEN DeleteNotFound(rq)
          ELSE [Logged(rq, "findById.ok") EXCEPT !.pc = "destroy"]]
  /\ UNCHANGED <<posts, tags, blobs>>

(***************************************************************************)
(* createTag                                                               *)
(***************************************************************************)
\* POST /api/tags arrives: the handler runs to Tag.findOne.
CreateTagStart(r, name) ==
  /\ Free(r)
  /\ started < MaxOps
  /\ started' = started + 1
  /\ LET rq == [Idle EXCEPT !.n = started + 1, !.op = "createTag",
                  !.tagArray = <<name>>]
     IN req' = [req EXCEPT ![r] =
          IF name = <<>> THEN Respond(rq, 400)
          ELSE [rq EXCEPT !.pc = "findTag"]]
  /\ UNCHANGED <<posts, tags, blobs>>

(***************************************************************************)
(* The blob store's answers.                                               *)
(***************************************************************************)
\* The handler after a successful upload.
AfterUpload(rq, url) ==
  LET rq1 == [Logged(rq, "upload.ok") EXCEPT !.imageUrl = url]
  IN IF rq.op = "createPost" THEN ProcessTags(rq1)
     ELSE [rq1 EXCEPT !.pc = "destroy"]

\* The mutant that swallows the upload's error and goes on without an image.
UploadFailSwallowed(rq) ==
  IF rq.op = "createPost" THEN ProcessTags(Logged(rq, "upload.fail"))
  ELSE [Logged(rq, "upload.fail") EXCEPT !.pc = "destroy"]

\* uploadToCloud threw: the handler's catch answers 500.
OnUploadFail(rq) == Throw(rq, "upload.fail")

\* uploadToCloud returns or throws (fault: the blob store fails).
UploadReturns(r, fault) ==
  /\ req[r].pc = "upload"
  /\ LET rq == req[r]
         id == PublicId(rq.n)
     IN IF ~fault /\ UploadAccepts(rq.image)
        THEN /\ blobs' = blobs \cup {id}
             /\ req' = [req EXCEPT ![r] =
                  AfterUpload(rq, SecureUrl(id, rq.image.mimetype[2]))]
        ELSE /\ blobs' = blobs
             /\ req' = [req EXCEPT ![r] = OnUploadFail(rq)]
  /\ UNCHANGED <<posts, tags, started>>

\* The handler after a successful deleteFromCloud.
AfterDestroy(rq) ==
  IF rq.op = "deletePost" THEN [Logged(rq, "destroy.ok") EXCEPT !.pc = "remove"]
  ELSE ProcessTags(Logged(rq, "destroy.ok"))

\* The mutant that logs the failed deletion and goes on.
DestroyFailIgnored(rq) ==
  IF rq.op = "deletePost" THEN [Logged(rq, "destroy.fail") EXCEPT !.pc = "remove"]
  ELSE ProcessTags(Logged(rq, "destroy.fail"))

\* deleteFromCloud threw: the handler's catch answers 500.
OnDestroyFail(rq) == Throw(rq, "destroy.fail")

\* deleteFromCloud(post.imageUrl) returns, or throws: result.result is 'ok' only
\* when the blob was there.
DestroyReturns(r, fault) ==
  /\ req[r].pc = "destroy"
  /\ LET rq == req[r]
         id == PublicIdOfUrl(rq.post[1].imageUrl)
     IN IF ~fault /\ id \in blobs
        THEN /\ blobs' = blobs \ {id}
             /\ req' = [req EXCEPT ![r] = AfterDestroy(rq)]
        ELSE /\ blobs' = blobs
             /\ req' = [req EXCEPT ![r] = OnDestroyFail(rq)]
  /\ UNCHANGED <<posts, tags, started>>

(***************************************************************************)
(* The tag store's answers.                                                *)
(***************************************************************************)
\* The name the loop is at, and its slug.
TagName(rq) == rq.tagArray[Len(rq.tagIds) + 1]
TagSlug(rq) == Slugify(TagName(rq))

\* tagIds.push(tag._id), and on to the next name.
PushTag(rq, id) ==
  LET rq1 == [rq EXCEPT !.tagIds = Append(@, id)]
  IN [rq1 EXCEPT !.pc = TagLoopPc(rq1)]

\* Tag.findOne({ slug }) returns (fault: the store fails).
TagFindOneReturns(r, fault) ==
  /\ req[r].pc = "findTag"
  /\ LET rq == req[r]
         found == TagFindOne(TagSlug(rq))
     IN req' = [req EXCEPT ![r] =
          IF fault THEN Throw(rq, "Tag.findOne.fail")
          ELSE IF found = <<>>
          THEN [Logged(rq, "Tag.findOne.null") EXCEPT !.pc = "insertTag"]
          ELSE IF rq.op = "createTag"
          THEN Respond(Logged(rq, "Tag.findOne.ok"), 409)
          ELSE PushTag(Logged(rq, "Tag.findOne.ok"), found[1].id)]
  /\ UNCHANGED <<posts, tags, blobs, started>>

\* The handler after Tag.create threw E11000, the duplicate-key error.
OnDuplicateTag(rq) == Throw(rq, "Tag.create.duplicate")

\* Tag.create({ name, slug }) returns or throws.
TagCreateReturns(r, fault) ==
  /\ req[r].pc = "insertTag"
  /\ LET rq == req[r]
         doc == TagDoc(TagName(rq), TagSlug(rq))
         outcome == IF fault THEN "fail" ELSE TagCreateOutcome(doc)
     IN IF outcome = "ok"
        THEN /\ tags' = tags \cup {doc}
             /\ req' = [req EXCEPT ![r] =
                  IF rq.op = "createTag"
                  THEN Respond(Logged(rq, "Tag.create.ok"), 201)
                  ELSE PushTag(Logged(rq, "Tag.create.ok"), doc.id)]
        ELSE /\ tags' = tags
             /\ req' = [req EXCEPT ![r] =
                  IF outcome = "duplicate" THEN OnDuplicateTag(rq)
                  ELSE Throw(rq, "Tag.create." \o outcome)]
  /\ UNCHANGED <<posts, blobs, started>>

(***************************************************************************)
(* The post store's answers.                                               *)
(***************************************************************************)
\* What may go wrong in a post-store write followed by populate('tags').
WriteFaults == {"none", "write", "populate"}

\* The handler once the write is done: populate returns or throws.
Populated(rq, fault, code) ==
  IF fault = "populate" THEN Throw(rq, "populate.fail") ELSE Respond(rq, code)

\* Post.create({ title, description, imageUrl, tags }) and post.populate return
\* or throw.
PostCreateReturns(r, fault) ==
  /\ req[r].pc = "persist"
  /\ req[r].op = "createPost"
  /\ LET rq == req[r]
         doc == PostDoc(rq.title, rq.description, rq.imageUrl, rq.tagIds)
     IN IF fault # "write" /\ PostValid(doc)
        THEN /\ posts' = posts @@ (rq.n :> doc)
             /\ req' = [req EXCEPT ![r] =
                  Populated(Logged(rq, "Post.create.ok"), fault, 201)]
        ELSE /\ posts' = posts
             /\ req' = [req EXCEPT ![r] = Throw(rq, "Post.create.fail")]
  /\ UNCHANGED <<tags, blobs, started>>

\* The mutant that always writes the resolved tags, an empty list included.
UpdateDocTagsReplaced(rq) ==
  PostDoc(IF Truthy(rq.title) THEN rq.title ELSE rq.post[1].title,
          IF Truthy(rq.description) THEN rq.description
          ELSE rq.post[1].description,
          rq.imageUrl,
          rq.tagIds)

\* The update document of findByIdAndUpdate.
UpdateDoc(rq) ==
  PostDoc(IF Truthy(rq.title) THEN rq.title ELSE rq.post[1].title,
          IF Truthy(rq.description) THEN rq.description
          ELSE rq.post[1].description,
          rq.imageUrl,
          IF Len(rq.tagIds) > 0 THEN rq.tagIds ELSE rq.post[1].tags)

\* Post.findByIdAndUpdate(postId, {...}, { new: true, runValidators: true })
\* .populate('tags') returns the updated post, or null when the post is gone,
\* or throws.
PostUpdateReturns(r, fault) ==
  /\ req[r].pc = "persist"
  /\ req[r].op = "updatePost"
  /\ LET rq == req[r]
         doc == UpdateDoc(rq)
     IN IF fault = "write" \/ ~PostValid(doc)
        THEN /\ posts' = posts
             /\ req' = [req EXCEPT ![r] = Throw(rq, "Post.update.fail")]
        ELSE IF rq.id \in DOMAIN posts
        THEN /\ posts' = [posts EXCEPT ![rq.id] = doc]
             /\ req' = [req EXCEPT ![r] =
                  Populated(Logged(rq, "Post.update.ok"), fault, 200)]
        ELSE /\ posts' = posts
             /\ req' = [req EXCEPT ![r] = Respond(Logged(rq, "Post.update.null"), 200)]
  /\ UNCHANGED <<tags, blobs, started>>

\* Post.findByIdAndDelete(id) returns or throws.
PostDeleteReturns(r, fault) ==
  /\ req[r].pc = "remove"
  /\ LET rq == req[r]
     IN IF fault
        THEN /\ posts' = posts
             /\ req' = [req EXCEPT ![r] = Throw(rq, "Post.delete.fail")]
        ELSE /\ posts' = [p \in DOMAIN posts \ {rq.id} |-> posts[p]]
             /\ req' = [req EXCEPT ![r] = Respond(Logged(rq, "Post.delete.ok"), 200)]
  /\ UNCHANGED <<tags, blobs, started>>

(***************************************************************************)
(* initDatabase, the seeding script.                                       *)
(***************************************************************************)
\* sampleTags
SampleTags ==
  << [name |-> <<"T", "e", "c", "h", "n", "o", "l", "o", "g", "y">>,
      slug |-> <<"t", "e", "c", "h", "n", "o", "l", "o", "g", "y">>],
     [name |-> <<"P", "r", "o", "g", "r", "a", "m", "m", "i", "n", "g">>,
      slug |-> <<"p", "r", "o", "g", "r", "a", "m", "m", "i", "n", "g">>],
     [name |-> <<"D", "e", "s", "i", "g", "n">>,
      slug |-> <<"d", "e", "s", "i", "g", "n">>],
     [name |-> <<"T", "r", "a", "v", "e", "l">>,
      slug |-> <<"t", "r", "a", "v", "e", "l">>],
     [name |-> <<"F", "o", "o", "d">>,
      slug |-> <<"f", "o", "o", "d">>],
     [name |-> <<"L", "i", "f", "e", "s", "t", "y", "l", "e">>,
      slug |-> <<"l", "i", "f", "e", "s", "t", "y", "l", "e">>] >>

\* The sample tag the script's loop is at.
TagData(rq) == SampleTags[Len(rq.tagIds) + 1]

\* The script after one sample tag: the next one, or the end of the script
\* (exit code 0).
SeedNext(rq, id) ==
  LET rq1 == [rq EXCEPT !.tagIds = Append(@, id)]
  IN IF Len(rq1.tagIds) < Len(rq1.tagArray)
     THEN [rq1 EXCEPT !.pc = "seedFind"]
     ELSE Respond(rq1, 0)

\* catch (error): process.exit(1)
SeedExit(rq, call) == Respond(Logged(rq, call), 1)

\* The script is run and mongoose.connect returns.
InitDatabaseStart(r) ==
  /\ Free(r)
  /\ started < MaxOps
  /\ started' = started + 1
  /\ req' = [req EXCEPT ![r] =
       [Idle EXCEPT !.n = started + 1, !.op = "initDatabase",
          !.tagArray = [i \in 1..Len(SampleTags) |-> SampleTags[i].name],
          !.pc = "seedFind"]]
  /\ UNCHANGED <<posts, tags, blobs>>

\* Tag.findOne({ slug: tagData.slug }) returns (fault: the store fails).
SeedFindOneReturns(r, fault) ==
  /\ req[r].pc = "seedFind"
  /\ LET rq == req[r]
         found == TagFindOne(TagData(rq).slug)
     IN req' = [req EXCEPT ![r] =
          IF fault THEN SeedExit(rq, "Tag.findOne.fail")
          ELSE IF found = <<>>
          THEN [Logged(rq, "Tag.findOne.null") EXCEPT !.pc = "seedInsert"]
          ELSE SeedNext(Logged(rq, "Tag.findOne.ok"), found[1].id)]
  /\ UNCHANGED <<posts, tags, blobs, started>>

\* Tag.create(tagData) returns or throws.
SeedCreateReturns(r, fault) ==
  /\ req[r].pc = "seedInsert"
  /\ LET rq == req[r]
         doc == TagDoc(TagData(rq).name, TagData(rq).slug)
         outcome == IF fault THEN "fail" ELSE TagCreateOutcome(doc)
     IN IF outcome = "ok"
        THEN /\ tags' = tags \cup {doc}
             /\ req' = [req EXCEPT ![r] =
                  SeedNext(Logged(rq, "Tag.create.ok"), doc.id)]
        ELSE /\ tags' = tags
             /\ req' = [req EXCEPT ![r] = SeedExit(rq, "Tag.create." \o outcome)]
  /\ UNCHANGED <<posts, blobs, started>>

(***************************************************************************)
(* getPosts and searchPosts                                                *)
(***************************************************************************)
\* The slugs of a tag filter: tagFilter.split(',').map(tag => tag.trim())
FilterSlugs(str) ==
  LET pieces == SplitComma(str)
  IN {Trim(pieces[i]) : i \in 1..Len(pieces)}

\* The request with its page, limit and skip computed.
Paginated(rq, page, limit) ==
  [rq EXCEPT !.page = page, !.limit = limit, !.skip = SkipOf(page, limit)]

\* GET /api/posts arrives: the handler runs to Tag.find, or to Post.find when
\* there is no tag filter.
GetPostsStart(r, page, limit, tagFilter) ==
  /\ Free(r)
  /\ LET rq == Paginated(
                [Idle EXCEPT !.op = "getPosts",
                   !.query = [NoQuery EXCEPT !.page = page, !.limit = limit,
                                             !.tags = tagFilter]],
                ListingNumber(page, 1), ListingNumber(limit, 10))
     IN req' = [req EXCEPT ![r] =
          IF ParamTruthy(tagFilter) THEN [rq EXCEPT !.pc = "findTags"]
          ELSE [rq EXCEPT !.pc = "findPosts"]]
  /\ UNCHANGED <<posts, tags, blobs, started>>

\* Tag.find({ slug: { $in: [...] } }).select('_id') returns (fault: the store
\* fails).
TagFindReturns(r, fault) ==
  /\ req[r].pc = "findTags"
  /\ LET rq == req[r]
         slugs == FilterSlugs(rq.query.tags.str)
         tagIds == {t.id : t \in {u \in tags : u.slug \in slugs}}
     IN req' = [req EXCEPT ![r] =
          IF fault THEN Throw(rq, "Tag.find.fail")
          ELSE [Logged(rq, "Tag.find.ok") EXCEPT
                  !.filter = TagsFilter(tagIds), !.pc = "findPosts"]]
  /\ UNCHANGED <<posts, tags, blobs, started>>

\* GET /api/search arrives: the handler runs to Post.find.
SearchPostsStart(r, q, page, limit) ==
  /\ Free(r)
  /\ LET rq == [Idle EXCEPT !.op = "searchPosts",
                  !.query = [NoQuery EXCEPT !.q = q, !.page = page,
                                            !.limit = limit]]
     IN req' = [req EXCEPT ![r] =
          IF ~ParamTruthy(q) THEN Respond(rq, 400)
          ELSE [Paginated(rq, SearchNumber(page, <<"1">>),
                          SearchNumber(limit, <<"1", "0">>))
                  EXCEPT !.filter = SearchFilter(q.str), !.pc = "findPosts"]]
  /\ UNCHANGED <<posts, tags, blobs, started>>

\* Post.find(filter)...skip(skip).limit(limit) returns or throws; `lenient`
\* is the driver's choice where FindOutcome leaves it open.
PostFindReturns(r, fault, lenient) ==
  /\ req[r].pc = "findPosts"
  /\ LET rq == req[r]
         outcome == FindOutcome(rq.skip, rq.limit)
         invalid == rq.filter.kind = "search" /\ RegexUnclosed(rq.filter.q)
     IN req' = [req EXCEPT ![r] =
          IF fault THEN Throw(rq, "Post.find.fail")
          ELSE IF invalid \/ outcome = "throw"
                  \/ (outcome = "either" /\ ~lenient)
          THEN Throw(rq, "Post.find.rejected")
          ELSE [Logged(rq, "Post.find.ok") EXCEPT
                  !.data = PageOf(SortDesc(Matching(rq.filter)),
                                  Lenient(rq.skip), Lenient(rq.limit)),
                  !.pc = "count"]]
  /\ UNCHANGED <<posts, tags, blobs, started>>

\* Post.countDocuments(filter) returns or throws; the handler answers with
\* the page and the pagination block.
CountReturns(r, fault) ==
  /\ req[r].pc = "count"
  /\ LET rq == req[r]
         total == Cardinality(Matching(rq.filter))
     IN req' = [req EXCEPT ![r] =
          IF fault THEN Throw(rq, "Post.count.fail")
          ELSE Respond([Logged(rq, "Post.count.ok") EXCEPT
                          !.total = total,
                          !.pages = CeilDiv(total, rq.limit)], 200)]
  /\ UNCHANGED <<posts, tags, blobs, started>>

\* The handler has answered and returns: the request and its locals are gone.
Finish(r) ==
  /\ req[r].pc = "done"
  /\ req' = [req EXCEPT ![r] = Idle]
  /\ UNCHANGED <<posts, tags, blobs, started>>

(***************************************************************************)
(* Specifications.                                                         *)
(***************************************************************************)
\* The requests a behaviour may start: the values of each input.
Inputs(titles, descriptions, images, tagsIns, names) ==
  [titles |-> titles, descriptions |-> descriptions, images |-> images,
   tagsIns |-> tagsIns, names |-> names]

\* One step of request slot r, its inputs drawn from `in`.
Step(r, in) ==
  \/ \E title \in in.titles, description \in in.descriptions,
        image \in in.images, tagsIn \in in.tagsIns :
       CreatePostStart(r, title, description, image, tagsIn)
  \/ \E id \in PostIds, title \in in.titles, description \in in.descriptions,
        image \in in.images, tagsIn \in in.tagsIns :
       UpdatePostStart(r, id, title, description, image, tagsIn)
  \/ \E id \in PostIds : DeletePostStart(r, id)
  \/ \E name \in in.names : CreateTagStart(r, name)
  \/ \E fault \in BOOLEAN : UploadReturns(r, fault)
  \/ \E fault \in BOOLEAN : DestroyReturns(r, fault)
  \/ \E fault \in BOOLEAN : TagFindOneReturns(r, fault)
  \/ \E fault \in BOOLEAN : TagCreateReturns(r, fault)
  \/ \E fault \in WriteFaults : PostCreateReturns(r, fault)
  \/ \E fault \in WriteFaults : PostUpdateReturns(r, fault)
  \/ \E fault \in BOOLEAN : PostDeleteReturns(r, fault)
  \/ Finish(r)

\* Concurrent requests, interleaved at their awaits.
RaceInputs ==
  Inputs({NoText, Text("T1", 200)}, {Text("D1", 5000)},
         {NoFile, File("image", "png", 5242880)},
         {NoTags, TagString(<<"a">>)}, {<<"a">>})

Next == \E r \in Slots : Step(r, RaceInputs)

Spec == Init /\ [][Next]_vars

\* Requests one at a time, each run to its response before the next arrives.
SeqInputs ==
  Inputs(TitleInputs, DescriptionInputs, ImageInputs, TagsInputs, TagNameInputs)

SeqNext == Step(1, SeqInputs)

SeqSpec == Init /\ [][SeqNext]_vars

\* The requests that resolve tag names, and the seeding script, one at a time.
TagResolveInputs ==
  Inputs({Text("T1", 200)}, {Text("D1", 5000)},
         {NoFile, File("image", "png", 5242880)},
         {NoTags, TagString(<<"a">>), TagString(<<"A", ",", " ", "a">>),
          TagString(<<" ">>), TagString(<<"a", ",", ",", "b">>),
          TagString(<<"a", ",", "b", ",", "a">>),
          TagArray(<<<<" ", "a">>>>)},
         {<<"a">>, <<" ", "a">>, <<"F", "o", "o", "d", "!">>,
          <<"A", "-", "7", "_", "\\">>})

TagNext ==
  \/ Step(1, TagResolveInputs)
  \/ InitDatabaseStart(1)
  \/ \E fault \in BOOLEAN : SeedFindOneReturns(1, fault)
  \/ \E fault \in BOOLEAN : SeedCreateReturns(1, fault)

TagSpec == Init /\ [][TagNext]_vars

\* The stores the queries run on, as requests of the other handlers leave
\* them: post n was created by the n-th request, with its blob.
StoredText(str) == Text(str, Len(str))

StoredPost(n, title, description, tagIds) ==
  PostDoc(StoredText(title), StoredText(description),
          SecureUrl(PublicId(n), "png"), tagIds)

StoredTag(id, name) == [id |-> id, name |-> Trim(name), slug |-> Slugify(name)]

\* The number of posts of the large store.
LargeStoreSize == 25

EmptyStore == [posts |-> <<>>, tags |-> {}]

SmallStore ==
  [posts |-> <<StoredPost(1, <<"A", "b">>, <<"c", "d">>, <<1>>),
               StoredPost(2, <<"c", "d">>, <<"x", "a", "B">>, <<1, 2>>),
               StoredPost(3, <<"a", "c", "b">>, <<"e">>, <<>>),
               StoredPost(4, <<"e">>, <<"a", ".", "b">>, <<2>>)>>,
   tags |-> {StoredTag(1, <<"a">>), StoredTag(2, <<"B">>),
             StoredTag(3, <<"c", " ", "d">>)}]

LargeStore ==
  [posts |-> [n \in 1..LargeStoreSize |->
                StoredPost(n, <<"a", "b">>, <<"c", "d">>,
                           IF n % 2 = 0 THEN <<1>> ELSE <<1, 2>>)],
   tags |-> {StoredTag(1, <<"a">>), StoredTag(2, <<"B">>)}]

QueryStores == {EmptyStore, SmallStore, LargeStore}

QueryInit ==
  /\ \E store \in QueryStores :
       /\ posts = store.posts
       /\ tags = store.tags
       /\ blobs = {PublicId(n) : n \in DOMAIN store.posts}
       /\ started = Len(store.posts)
  /\ req = [r \in Slots |-> Idle]

\* The values of ?page= and ?limit=, of ?tags= and of ?q=.
PageInputs ==
  {NoParam, Param(<<>>), Param(<<"a", "b", "c">>), Param(<<"0">>),
   Param(<<"-", "1">>), Param(<<"1">>), Param(<<"2">>), Param(<<"3">>)}

LimitInputs ==
  {NoParam, Param(<<"x">>), Param(<<"0">>), Param(<<"-", "5">>),
   Param(<<"2">>), Param(<<"1", "0">>), Param(<<" ", "3", "p", "x">>)}

TagFilterInputs ==
  {NoParam, Param(<<>>), Param(<<"a">>), Param(<<"b", ",", " ", "a">>),
   Param(<<"z", "z">>), Param(<<"A">>), Param(<<"c", "-", "d">>)}

QueryInputs ==
  {NoParam, Param(<<>>), Param(<<"a">>), Param(<<"A", "B">>), Param(<<".">>),
   Param(<<"a", ".", "b">>), Param(<<"(">>), Param(<<"z">>)}

\* GET /api/posts and GET /api/search, one request at a time.
QueryNext ==
  \/ \E page \in PageInputs, limit \in LimitInputs, tagFilter \in TagFilterInputs :
       GetPostsStart(1, page, limit, tagFilter)
  \/ \E q \in QueryInputs, page \in PageInputs, limit \in LimitInputs :
       SearchPostsStart(1, q, page, limit)
  \/ \E fault \in BOOLEAN : TagFindReturns(1, fault)
  \/ \E fault \in BOOLEAN, lenient \in BOOLEAN : PostFindReturns(1, fault, lenient)
  \/ \E fault \in BOOLEAN : CountReturns(1, fault)
  \/ Finish(1)

QuerySpec == QueryInit /\ [][QueryNext]_vars

\* Concurrent createPost, updatePost and deletePost requests without tags,
\* where no store or blob-store call fails of itself: a blob deletion fails
\* only when the blob is gone.
BlobRaceInputs ==
  Inputs({NoText, Text("T1", 200)}, {Text("D1", 5000)},
         {NoFile, File("image", "png", 5242880)}, {NoTags}, {})

BlobRaceStep(r) ==
  \/ \E title \in BlobRaceInputs.titles,
        description \in BlobRaceInputs.descriptions,
        image \in BlobRaceInputs.images, tagsIn \in BlobRaceInputs.tagsIns :
       CreatePostStart(r, title, description, image, tagsIn)
  \/ \E id \in PostIds, title \in BlobRaceInputs.titles,
        description \in BlobRaceInputs.descriptions,
        image \in BlobRaceInputs.images, tagsIn \in BlobRaceInputs.tagsIns :
       UpdatePostStart(r, id, title, description, image, tagsIn)
  \/ \E id \in PostIds : DeletePostStart(r, id)
  \/ UploadReturns(r, FALSE)
  \/ DestroyReturns(r, FALSE)
  \/ PostCreateReturns(r, "none")
  \/ PostUpdateReturns(r, "none")
  \/ PostDeleteReturns(r, FALSE)
  \/ Finish(r)

BlobRaceNext == \E r \in Slots : BlobRaceStep(r)

BlobRaceSpec == Init /\ [][BlobRaceNext]_vars

(***************************************************************************)
(* Properties.                                                             *)
(***************************************************************************)
Calls(rq) == {rq.log[i] : i \in 1..Len(rq.log)}
LastCall(rq) == IF rq.log = <<>> THEN "" ELSE rq.log[Len(rq.log)]
Quiescent == \A r \in Slots : ~InFlight(r)
BlobLive(imageUrl) == PublicIdOfUrl(imageUrl) \in blobs

\* C1: every post in the post store has an imageUrl whose blob is in the blob
\* store.  Stated for the states in which no request is in flight, where the
\* claim asks least: it fails there too, so it fails in every reading.
C1_ImageUrlLive ==
  Quiescent => \A p \in DOMAIN posts : BlobLive(posts[p].imageUrl)

\* C2: the tag store never holds two tag records with the same slug.
C2_SlugUnique ==
  \A t1 \in tags : \A t2 \in tags : t1.slug = t2.slug => t1 = t2

\* C2's case: a request looked its slug up, found nothing, and its insert met
\* the tag another request had inserted meanwhile.
C2_Witness ==
  \E r \in Slots :
    /\ req[r].op \in {"createPost", "updatePost", "createTag"}
    /\ LastCall(req[r]) = "Tag.create.duplicate"
    /\ \E t \in tags : t.slug = Slugify(req[r].tagArray[Len(req[r].tagIds) + 1])

\* C3: a createPost or updatePost whose tag insert lost to the slug's unique
\* index does not fail: it completes successfully with the winner's tag.
C3_LoserReResolved ==
  \A r \in Slots :
    /\ req[r].op \in {"createPost", "updatePost"}
    /\ "Tag.findOne.null" \in Calls(req[r])
    /\ "Tag.create.duplicate" \in Calls(req[r])
    => /\ req[r].status # 500
       /\ req[r].pc = "done" => req[r].status \in {200, 201}

BlobCalls == {"upload.ok", "upload.fail", "destroy.ok", "destroy.fail"}
StoresUnchanged == UNCHANGED <<posts, tags, blobs>>
\* The step is the arrival of the request that slot r holds after it.
Arrives(r) == started' = started + 1 /\ req'[r] # req[r]

\* C4, one step: a post record that appears is the record of a createPost whose
\* upload had returned a blob, and a createPost whose upload returns none
\* answers 500 and inserts nothing.
C4_Step(r) ==
  LET a == req[r]
      b == req'[r]
  IN /\ b # a /\ a.n \in DOMAIN posts' \ DOMAIN posts =>
          /\ a.op = "createPost"
          /\ "upload.ok" \in Calls(a)
          /\ PublicIdOfUrl(a.imageUrl) = PublicId(a.n)
          /\ posts'[a.n].imageUrl = a.imageUrl
     /\ a.op = "createPost" /\ a.pc = "upload" /\ b # a
        /\ PublicId(a.n) \notin blobs' =>
          /\ b.pc = "done" /\ b.status = 500
          /\ posts' = posts
     /\ b.op = "createPost" /\ "upload.ok" \notin Calls(b) =>
          b.n \notin DOMAIN posts'

\* C4: createPost inserts a post record only after its upload has completed
\* successfully; if the upload fails the request fails and inserts no post.
C4_UploadBeforeInsert ==
  [][(\A p \in DOMAIN posts' \ DOMAIN posts : \E r \in Slots : req[r].n = p)
     /\ \A r \in Slots : C4_Step(r)]_vars

\* C4's cases: one createPost has failed at its upload and left no post, another
\* has uploaded and inserted its post.
C4_Witness ==
  /\ \E r \in Slots :
       /\ req[r].op = "createPost" /\ req[r].status = 500
       /\ LastCall(req[r]) = "upload.fail"
       /\ req[r].n \notin DOMAIN posts
  /\ \E r \in Slots :
       /\ req[r].op = "createPost" /\ req[r].status = 201
       /\ req[r].n \in DOMAIN posts
       /\ posts[req[r].n].imageUrl = req[r].imageUrl
       /\ BlobLive(req[r].imageUrl)

\* The inputs C5 names: no title or description, no image, a media type that
\* does not begin with "image/", or more than 5 * 1024 * 1024 bytes.
C5_Invalid(rq) ==
  \/ rq.title = NoText
  \/ rq.description = NoText
  \/ ~rq.image.present
  \/ rq.image.mimetype[1] # "image"
  \/ rq.image.size > 5 * 1024 * 1024

\* C5: a createPost with such an input answers 400 before any upload call and
\* leaves the post, tag and blob stores unchanged.
C5_InvalidCreateRejected ==
  [][\A r \in Slots :
       Arrives(r) /\ req'[r].op = "createPost" /\ C5_Invalid(req'[r]) =>
         /\ req'[r].pc = "done" /\ req'[r].status = 400
         /\ req'[r].log = <<>>
         /\ StoresUnchanged]_vars

\* C5's case: an image one byte over the limit, with everything else in order,
\* was answered 400.
C5_Witness ==
  \E r \in Slots :
    /\ req[r].op = "createPost" /\ req[r].status = 400
    /\ Truthy(req[r].title) /\ Truthy(req[r].description)
    /\ req[r].image.mimetype[1] = "image"
    /\ req[r].image.size = 5 * 1024 * 1024 + 1

\* C6, one step of a deletePost in slot r.
C6_Step(r) ==
  LET a == req[r]
      b == req'[r]
      blob == PublicIdOfUrl(a.post[1].imageUrl)
  IN a.op = "deletePost" /\ b # a =>
       /\ DOMAIN posts' # DOMAIN posts =>
            /\ a.pc = "remove" /\ LastCall(a) = "destroy.ok"
            /\ blob \notin blobs
            /\ DOMAIN posts' = DOMAIN posts \ {a.id}
       /\ a.pc = "destroy" /\ blob \in blobs' =>
            /\ b.pc = "done" /\ b.status = 500
            /\ posts' = posts
            /\ a.id \in DOMAIN posts' /\ posts'[a.id] = a.post[1]

\* C6: deletePost deletes the blob first and the record second; if the blob
\* deletion fails the request fails and the record is still there, unchanged.
C6_BlobThenRecord == [][\A r \in Slots : C6_Step(r)]_vars

\* C6's case: a deletePost whose blob deletion failed has answered 500 and its
\* post record is in the store as it was.
C6_Witness ==
  \E r \in Slots :
    /\ req[r].op = "deletePost" /\ req[r].status = 500
    /\ LastCall(req[r]) = "destroy.fail"
    /\ BlobLive(req[r].post[1].imageUrl)
    /\ req[r].id \in DOMAIN posts /\ posts[req[r].id] = req[r].post[1]

\* C7: deletePost on an id with no post answers 404, calls the blob store not at
\* all and changes none of the post, tag and blob stores.
C7_DeleteMissing ==
  [][\A r \in Slots :
       Arrives(r) /\ req'[r].op = "deletePost" /\ req'[r].id \notin DOMAIN posts =>
         /\ req'[r].pc = "done" /\ req'[r].status = 404
         /\ Calls(req'[r]) \cap BlobCalls = {}
         /\ StoresUnchanged]_vars

\* C7's case: a deletePost was answered 404 while the stores hold a post and
\* its blob.
C7_Witness ==
  \E r \in Slots :
    /\ req[r].op = "deletePost" /\ req[r].status = 404
    /\ req[r].id \notin DOMAIN posts
    /\ posts # <<>> /\ blobs # {}

\* C8, one step of an updatePost in slot r that writes the record.
C8_Step(r) ==
  LET a == req[r]
      b == req'[r]
  IN a.op = "updatePost" /\ a.pc = "persist" /\ "Post.update.ok" \in Calls(b) =>
       /\ Len(a.tagIds) = Len(ParseTags(a.tags))
       /\ posts'[a.id].tags =
            IF ParseTags(a.tags) # <<>> THEN a.tagIds ELSE posts[a.id].tags

\* C8: an updatePost leaves the post with the resolved tags when rawTags
\* resolves to a non-empty sequence, and with its prior tags when rawTags is
\* absent or resolves to nothing; so no update empties a non-empty tag list.
C8_TagsReplacedOrKept ==
  [][/\ \A r \in Slots : C8_Step(r)
     /\ \A p \in DOMAIN posts \cap DOMAIN posts' :
          posts[p].tags # <<>> => posts'[p].tags # <<>>]_vars

\* C8's case: an update with rawTags "" has been applied to a post that had
\* tags, and the post still has them.
C8_Witness ==
  \E r \in Slots :
    /\ req[r].op = "updatePost" /\ req[r].status = 200
    /\ LastCall(req[r]) = "Post.update.ok"
    /\ req[r].tags = TagString(<<>>)
    /\ req[r].post[1].tags # <<>>
    /\ posts[req[r].id].tags = req[r].post[1].tags

C9_ImageOk(image) ==
  image.mimetype[1] = "image" /\ image.size <= 5 * 1024 * 1024

\* C9, one step of an updatePost in slot r.
C9_Step(r) ==
  LET a == req[r]
      b == req'[r]
  IN /\ a.op = "updatePost" /\ b # a /\ blobs \ blobs' # {} =>
          /\ C9_ImageOk(a.image)
          /\ LastCall(a) = "upload.ok"
          /\ PublicId(a.n) \in blobs
          /\ blobs \ blobs' = {PublicIdOfUrl(a.post[1].imageUrl)}
     /\ Arrives(r) /\ b.op = "updatePost" /\ b.post # <<>>
        /\ b.image.present /\ ~C9_ImageOk(b.image) =>
          /\ b.pc = "done" /\ b.status = 400
          /\ Calls(b) \cap BlobCalls = {}
          /\ StoresUnchanged
     /\ a.op = "updatePost" /\ a.pc = "upload" /\ b # a
        /\ PublicId(a.n) \notin blobs' =>
          /\ b.pc = "done" /\ b.status = 500
          /\ "destroy.ok" \notin Calls(b)
          /\ StoresUnchanged

\* C9: updatePost with a new image deletes the previous blob only after the
\* new image passed validation and was uploaded; if validation or the upload
\* fails, the previous blob stays in the blob store and the record unchanged.
C9_DeleteAfterUpload == [][\A r \in Slots : C9_Step(r)]_vars

\* C9's case: an updatePost whose upload failed has answered 500; the previous
\* blob and the record are as they were.
C9_Witness ==
  \E r \in Slots :
    /\ req[r].op = "updatePost" /\ req[r].status = 500
    /\ LastCall(req[r]) = "upload.fail"
    /\ BlobLive(req[r].post[1].imageUrl)
    /\ posts[req[r].id] = req[r].post[1]

\* C10: when updatePost uploaded a new image and the deletion of the previous
\* blob failed, the post record ends with the requested update applied: the new
\* imageUrl and the supplied title and description.
C10_UpdateKeptOnDeleteFailure ==
  \A r \in Slots :
    /\ req[r].op = "updatePost" /\ req[r].pc = "done"
    /\ "upload.ok" \in Calls(req[r])
    /\ LastCall(req[r]) = "destroy.fail"
    => /\ req[r].id \in DOMAIN posts
       /\ posts[req[r].id].imageUrl = req[r].imageUrl
       /\ Truthy(req[r].title) => posts[req[r].id].title = req[r].title
       /\ Truthy(req[r].description) =>
            posts[req[r].id].description = req[r].description

\* C11, the request of slot r once it has answered: if it deleted its post's
\* blob, the post carries the image it uploaded (updatePost) or is gone
\* (deletePost).
C11_Ended(rq) ==
  rq.pc = "done" /\ "destroy.ok" \in Calls(rq) =>
    /\ rq.op \in {"updatePost", "deletePost"}
    /\ rq.op = "updatePost" =>
         /\ "upload.ok" \in Calls(rq)
         /\ rq.id \in DOMAIN posts
         /\ posts[rq.id].imageUrl = rq.imageUrl
         /\ PublicIdOfUrl(rq.imageUrl) = PublicId(rq.n)
    /\ rq.op = "deletePost" => rq.id \notin DOMAIN posts

\* C11: a blob leaves the blob store only in a step of an updatePost or a
\* deletePost, and the request that removed its post's blob ends with the post
\* carrying the newly uploaded imageUrl (update) or with the post removed
\* (delete).
C11_BlobRemovedWithRecord ==
  [][/\ blobs \ blobs' # {} =>
          \E r \in Slots :
            /\ req[r].op \in {"updatePost", "deletePost"}
            /\ req[r].pc = "destroy" /\ req'[r] # req[r]
     /\ (\A r \in Slots : C11_Ended(req[r]))']_vars

\* The (name, identifier) pairs a createPost or updatePost has resolved so far.
C12_Resolved(rq) ==
  IF rq.op \in {"createPost", "updatePost"}
  THEN {<<rq.tagArray[i], rq.tagIds[i]>> : i \in 1..Len(rq.tagIds)}
  ELSE {}

\* C12, one step in which the request of slot r2 resolves a name that the
\* request of slot r1 has resolved before.
C12_Step(r1, r2) ==
  LET a == req[r2]
      b == req'[r2]
  IN /\ a.op \in {"createPost", "updatePost"}
     /\ a.pc \in {"findTag", "insertTag"}
     /\ Len(b.tagIds) = Len(a.tagIds) + 1
     => \A pair \in C12_Resolved(req[r1]) :
          pair[1] = TagName(a) =>
            /\ b.tagIds[Len(b.tagIds)] = pair[2]
            /\ tags' = tags

\* C12: when a request resolves a tag name that an earlier request resolved,
\* it gets the identifier the earlier request got, and its resolution leaves
\* the tag store as it was.
C12_SameTagTwice ==
  [][\A r1 \in Slots : \A r2 \in Slots \ {r1} : C12_Step(r1, r2)]_vars

\* C12's case: a createPost resolved its name by creating the tag and
\* answered; a later request with the same rawTags found that tag, created
\* none, and holds the same identifiers.
C12_Witness ==
  \E r1 \in Slots : \E r2 \in Slots :
    /\ req[r1].op = "createPost" /\ req[r1].status = 201
    /\ "Tag.create.ok" \in Calls(req[r1])
    /\ req[r2].op \in {"createPost", "updatePost"} /\ req[r2].pc = "done"
    /\ req[r2].n > req[r1].n
    /\ req[r2].tags = req[r1].tags
    /\ "Tag.findOne.ok" \in Calls(req[r2])
    /\ "Tag.create.ok" \notin Calls(req[r2])
    /\ req[r2].tagIds = req[r1].tagIds /\ req[r2].tagIds # <<>>
    /\ req[r2].status \in {200, 201}

\* The names whose slug a request is computing: the name its loop is at.
C18_Names ==
  {TagName(req[r]) : r \in {q \in Slots : req[q].pc \in {"findTag", "insertTag"}}}

SlugChars == LowerLetters \cup Digits \cup {"-"}

\* C18: slugify is idempotent, slugify(slugify(x)) = slugify(x), and its
\* result holds only characters of [a-z0-9-].
C18_SlugifyIdempotent ==
  \A x \in C18_Names :
    /\ Slugify(Slugify(x)) = Slugify(x)
    /\ \A i \in 1..Len(Slugify(x)) : Slugify(x)[i] \in SlugChars

\* C18's case: a request is slugifying a name with an upper-case letter, a
\* digit and characters outside [a-z0-9], and the slug differs from the name.
C18_Witness ==
  \E x \in C18_Names :
    /\ \E i \in 1..Len(x) : x[i] \in UpperLetters
    /\ \E i \in 1..Len(x) : x[i] \in Digits
    /\ \E i \in 1..Len(x) : x[i] \notin UpperLetters \cup SlugChars
    /\ Slugify(x) # x

\* C19: every tag record has slug = slugify(name) for its stored name.
C19_SlugOfStoredName == \A t \in tags : t.slug = Slugify(t.name)

\* The calls of a request that failed for a reason outside the handler.
SpontaneousFails ==
  {"Tag.findOne.fail", "Tag.create.fail", "Post.create.fail",
   "Post.update.fail", "populate.fail", "upload.fail", "destroy.fail"}

\* C20: a createPost or updatePost that resolves an empty name, and meets no
\* failing store or blob-store call, completes successfully, the empty-slug
\* tag looked up and created when absent.
C20_BlankNameAccepted ==
  \A r \in Slots :
    /\ req[r].op \in {"createPost", "updatePost"}
    /\ req[r].pc = "done"
    /\ \E i \in 1..Len(req[r].tagArray) : req[r].tagArray[i] = <<>>
    /\ Calls(req[r]) \cap SpontaneousFails = {}
    => /\ req[r].status \in {200, 201}
       /\ \E t \in tags : t.slug = <<>>

Elements(list) == {list[i] : i \in 1..Len(list)}
Min(a, b) == IF a <= b THEN a ELSE b
Max(a, b) == IF a >= b THEN a ELSE b
QueryFails == {"Tag.find.fail", "Post.find.fail", "Post.count.fail"}

\* The identifiers of the tags whose slug is among the slugs of ?tags=.
C13_TagIds(rq) ==
  {t.id : t \in {u \in tags : u.slug \in FilterSlugs(rq.query.tags.str)}}

\* The posts whose tag list intersects those identifiers.
C13_Expected(rq) ==
  {p \in DOMAIN posts : Elements(posts[p].tags) \cap C13_TagIds(rq) # {}}

\* C13: a listing with a tag filter counts and returns exactly the posts whose
\* tag list intersects the identifiers of the tags with one of the given
\* slugs (the page of them that skip and limit select, newest first); when no
\* slug matches a tag the answer is 200 with no post and total 0, whatever the
\* store holds, unless a store call fails or the store rejects skip or limit.
C13_TagFilter ==
  \A r \in Slots :
    LET rq == req[r]
    IN rq.op = "getPosts" /\ ParamTruthy(rq.query.tags) /\ rq.pc = "done" =>
         /\ rq.status = 200 =>
              /\ rq.total = Cardinality(C13_Expected(rq))
              /\ Elements(rq.data) \subseteq C13_Expected(rq)
              /\ \A i \in 1..(Len(rq.data) - 1) : rq.data[i] > rq.data[i + 1]
              /\ rq.skip.v >= 0 /\ rq.limit.v >= 1 =>
                   Len(rq.data) = Min(rq.limit.v, Max(0, rq.total - rq.skip.v))
         /\ C13_TagIds(rq) = {} /\ Calls(rq) \cap QueryFails = {}
            /\ "Post.find.rejected" \notin Calls(rq) =>
              rq.status = 200 /\ rq.data = <<>> /\ rq.total = 0

\* C13's case: on a store with posts and tags, a listing filtered by a slug no
\* tag has was answered 200 with no post and total 0.
C13_Witness ==
  \E r \in Slots :
    /\ req[r].op = "getPosts" /\ req[r].status = 200
    /\ req[r].query.tags = Param(<<"z", "z">>)
    /\ posts # <<>> /\ tags # {}
    /\ req[r].data = <<>> /\ req[r].total = 0

\* The inputs C14 names: absent, non-numeric, zero or negative.
C14_Fallback(p) ==
  \/ ~p.present
  \/ ~IsInt(ParseInt(p.str))
  \/ ParseInt(p.str).v <= 0

\* C14: in the listing, a page or limit that is absent, non-numeric or
\* non-positive falls back to its default (page 1, limit 10), so page >= 1,
\* limit >= 1 and skip = (page - 1) * limit >= 0.
C14_ListingDefaults ==
  \A r \in Slots :
    LET rq == req[r]
    IN rq.op = "getPosts" =>
         /\ IsInt(rq.page) /\ IsInt(rq.limit) /\ IsInt(rq.skip)
         /\ C14_Fallback(rq.query.page) => rq.page.v = 1
         /\ C14_Fallback(rq.query.limit) => rq.limit.v = 10
         /\ rq.page.v >= 1 /\ rq.limit.v >= 1
         /\ rq.skip.v = (rq.page.v - 1) * rq.limit.v /\ rq.skip.v >= 0

\* C15: for every page and limit input the search endpoint computes the
\* effective page, limit and skip that the listing endpoint computes for it.
C15_SearchAsListing ==
  \A r \in Slots :
    LET rq == req[r]
        page == ListingNumber(rq.query.page, 1)
        limit == ListingNumber(rq.query.limit, 10)
    IN rq.op = "searchPosts" /\ ParamTruthy(rq.query.q) =>
         /\ rq.page = page
         /\ rq.limit = limit
         /\ rq.skip = SkipOf(page, limit)

\* C16: a listing or search that answers reports total as the number of posts
\* matching the filter its page was fetched with, and pages = ceil(total /
\* limit) for its effective limit, a non-negative integer.
C16_TotalAndPages ==
  \A r \in Slots :
    LET rq == req[r]
    IN rq.op \in {"getPosts", "searchPosts"} /\ rq.status = 200 =>
         /\ rq.total = Cardinality(Matching(rq.filter))
         /\ Elements(rq.data) \subseteq Matching(rq.filter)
         /\ IsInt(rq.pages) /\ rq.pages.v >= 0
         /\ IsInt(rq.limit) /\ rq.limit.v # 0
         /\ rq.limit.v > 0 =>
              /\ rq.pages.v * rq.limit.v >= rq.total
              /\ (rq.pages.v - 1) * rq.limit.v < rq.total
         /\ rq.limit.v < 0 =>
              /\ rq.pages.v * rq.limit.v <= rq.total
              /\ (rq.pages.v - 1) * rq.limit.v > rq.total

\* q occurs in text as a substring, letters compared without case.
C17_Contains(text, q) ==
  \E off \in 0..(Len(text) - Len(q)) :
    \A i \in 1..Len(q) : LowerChar(q[i]) = LowerChar(text[off + i])

C17_Expected(q) ==
  {p \in DOMAIN posts :
     C17_Contains(posts[p].title.s, q) \/ C17_Contains(posts[p].description.s, q)}

\* C17: a search with a non-empty query matches a post if and only if the
\* query occurs as a case-insensitive substring of its title or description.
C17_SubstringSearch ==
  \A r \in Slots :
    LET rq == req[r]
    IN rq.op = "searchPosts" /\ rq.pc = "done" /\ ParamTruthy(rq.query.q) =>
         /\ rq.status = 200 =>
              /\ rq.total = Cardinality(C17_Expected(rq.query.q.str))
              /\ Elements(rq.data) \subseteq C17_Expected(rq.query.q.str)
         /\ rq.status = 500 =>
              \/ Calls(rq) \cap QueryFails # {}
              \/ FindOutcome(rq.skip, rq.limit) # "ok"

\* The names of a comma-separated rawTags string: split on ',', each trimmed.
C21_Names(t) ==
  LET pieces == SplitComma(t.str)
  IN [i \in 1..Len(pieces) |-> Trim(pieces[i])]

\* The tag loop of the request has run to its end.
C21_LoopEnded(rq) ==
  \/ rq.pc = "persist"
  \/ Calls(rq) \cap {"Post.create.ok", "Post.create.fail", "Post.update.ok",
                     "Post.update.null", "Post.update.fail"} # {}

\* C21: for a comma-separated rawTags string, the identifiers a createPost or
\* updatePost resolves are, in order, those of the tags whose slug is the
\* slugify of the split and trimmed names: one per name when the loop has
\* ended, equal for equal names, distinct for names with distinct slugs, and
\* the sequence the post is written with.
C21_ResolvedInOrder ==
  \A r \in Slots :
    LET rq == req[r]
        names == C21_Names(rq.tags)
    IN rq.op \in {"createPost", "updatePost"} /\ rq.tags.kind = "string"
       /\ rq.tags.str # <<>> /\ rq.pc \notin {"idle", "upload", "destroy"}
       /\ rq.status # 400 =>
         /\ Len(rq.tagIds) <= Len(names)
         /\ C21_LoopEnded(rq) => Len(rq.tagIds) = Len(names)
         /\ \A i \in 1..Len(rq.tagIds) :
              \E t \in tags : t.slug = Slugify(names[i]) /\ t.id = rq.tagIds[i]
         /\ \A i \in 1..Len(rq.tagIds) : \A j \in 1..Len(rq.tagIds) :
              /\ names[i] = names[j] => rq.tagIds[i] = rq.tagIds[j]
              /\ Slugify(names[i]) # Slugify(names[j]) =>
                   rq.tagIds[i] # rq.tagIds[j]
         /\ LastCall(rq) = "Post.create.ok" => posts[rq.n].tags = rq.tagIds
         /\ LastCall(rq) = "Post.update.ok" => posts[rq.id].tags = rq.tagIds

\* C21's case: a createPost with rawTags "a,b,a" has written its post with
\* three identifiers, the first and the third equal, the second another.
C21_Witness ==
  \E r \in Slots :
    /\ req[r].op = "createPost" /\ req[r].status = 201
    /\ req[r].tags = TagString(<<"a", ",", "b", ",", "a">>)
    /\ Len(req[r].tagIds) = 3
    /\ req[r].tagIds[1] = req[r].tagIds[3]
    /\ req[r].tagIds[1] # req[r].tagIds[2]
    /\ posts[req[r].n].tags = req[r].tagIds

\* C22: an updatePost whose record update found no post, the post having been
\* removed after the handler's lookup, answers 404 and not success.
C22_UpdateOfMissingIsNotFound ==
  \A r \in Slots :
    /\ req[r].op = "updatePost" /\ req[r].pc = "done"
    /\ "findById.ok" \in Calls(req[r])
    /\ "Post.update.null" \in Calls(req[r])
    => /\ req[r].status = 404
       /\ req[r].status \notin {200, 201}

\* The posts whose imageUrl refers to blob b.
C23_Referrers(b) == {p \in DOMAIN posts : PublicIdOfUrl(posts[p].imageUrl) = b}

\* C23: when no call fails of itself, once every request has completed each
\* blob of the blob store is the image of exactly one post.
C23_NoOrphanBlob ==
  Quiescent => \A b \in blobs : Cardinality(C23_Referrers(b)) = 1

====
